---- MODULE Spec2Model ----
(***************************************************************************)
(* ITools::Lexer (lexer.h): a single-pass tokenizer over a caller-owned    *)
(* character buffer.  Addresses are 1-based: the buffer handed to the      *)
(* constructor occupies addresses 1..Len(stream); the bytes at higher      *)
(* addresses are memory the Lexer does not own but that several functions  *)
(* dereference.  Such a byte has an arbitrary value, fixed the first time  *)
(* a call reads it (variable beyond).                                      *)
(***************************************************************************)
EXTENDS Integers, Sequences, FiniteSets, TLC

VARIABLES stream, beyond, usesHex, charStream, call, prev, out, value, tokens

vars == <<stream, beyond, usesHex, charStream, call, prev, out, value, tokens>>

(***************************************************************************)
(* Bounds of the model                                                     *)
(***************************************************************************)
\* longest buffer handed to the constructor
MaxLen == 3
\* Read, ReadTo and ExpectString are called with the read head at most this
\* far after streamEnd (each such call moves the read head further)
MaxOver == 1

\* the characters buffers are drawn from: whitespace, the hyphen, a digit,
\* a letter that is no hex digit, a hex letter and the period
Char == {" ", "-", "0", "x", "a", "."}
\* the values the bytes after the buffer are drawn from: a digit (the one of
\* the hex tag) and a character that is no digit (the letter of the hex tag)
Foreign == {"0", "x"}
\* placeholder of a foreign byte no call has read yet; never a member of Char
Unread == "?"

Max(a, b) == IF a > b THEN a ELSE b
Min(a, b) == IF a < b THEN a ELSE b

(***************************************************************************)
(* enum TokenTypes (the members the alphabet can produce, and Token_Float) *)
(***************************************************************************)
Token_End == "Token_End"
Token_Unknown == "Token_Unknown"
Token_String == "Token_String"
Token_Float == "Token_Float"
Token_Decimal == "Token_Decimal"
Token_Hex == "Token_Hex"
Token_Hyphen == "Token_Hyphen"
Token_Comma == "Token_Comma"
Token_Period == "Token_Period"
Token_NullTerminator == "Token_NullTerminator"
\* the character of the NUL byte
NUL == "NUL"

\* the single-character cases of the switch of NextToken
SingleCharType(ch) ==
  CASE ch = "," -> Token_Comma
    [] ch = "[" -> "Token_LeftBracket"
    [] ch = "]" -> "Token_RightBracket"
    [] ch = "{" -> "Token_LeftBrace"
    [] ch = "}" -> "Token_RightBrace"
    [] ch = "(" -> "Token_LeftParen"
    [] ch = ")" -> "Token_RightParen"
    [] ch = "/" -> "Token_FwdSlash"
    [] ch = "<" -> "Token_LessThan"
    [] ch = ">" -> "Token_GreaterThan"
    [] ch = "=" -> "Token_Equal"
    [] ch = "+" -> "Token_Plus"
    [] ch = "*" -> "Token_Star"
    [] ch = "\\" -> "Token_BackSlash"
    [] ch = "#" -> "Token_Pound"
    [] ch = "." -> Token_Period
    [] ch = ";" -> "Token_SemiColon"
    [] ch = ":" -> "Token_Colon"
    [] ch = "'" -> "Token_Apostrophe"
    [] ch = "\"" -> "Token_Quote"
    [] ch = "|" -> "Token_Pipe"
    [] ch = NUL -> Token_NullTerminator
    [] OTHER -> Token_Unknown

Digits == {"0", "1", "2", "3", "4", "5", "6", "7", "8", "9"}
HexLetters == {"a", "b", "c", "d", "e", "f", "A", "B", "C", "D", "E", "F"}
OtherLower == {"g", "h", "i", "j", "k", "l", "m", "n", "o", "p", "q", "r",
               "s", "t", "u", "v", "w", "x", "y", "z"}
OtherUpper == {"G", "H", "I", "J", "K", "L", "M", "N", "O", "P", "Q", "R",
               "S", "T", "U", "V", "W", "X", "Y", "Z"}

IsWhiteSpace(ch) == ch \in {" ", "\n", "\r", "\t"}

IsNumber(ch, type) ==
  IF type = Token_Hex
  THEN ch \in Digits \cup HexLetters
  ELSE ch \in Digits \cup {"."}

\* IsString without the case of the hyphen
IsString_NoHyphen(ch) ==
  ch \in Digits \cup HexLetters \cup OtherLower \cup OtherUpper \cup {"_"}

IsString(ch) ==
  ch \in Digits \cup HexLetters \cup OtherLower \cup OtherUpper \cup {"_", "-"}

(***************************************************************************)
(* The Lexer's constant fields                                             *)
(***************************************************************************)
streamStart == 1
streamEnd == Len(stream)

\* CompletedStream() with the comparison off by one: the last byte of the
\* buffer already counts as the end
CompletedStream_OffByOne(cs, e) == cs >= e

\* CompletedStream() for a read head cs and a last valid address e
CompletedStream(cs, e) == cs > e

(***************************************************************************)
(* The memory a call sees: the buffer, the foreign bytes already read, and *)
(* placeholders for the rest.                                              *)
(***************************************************************************)
Image(str, known) ==
  str \o known \o [i \in 1..(MaxOver + 4) |-> Unread]

\* A returned token, the read head after the call, and the highest address
\* whose content the call's outcome depends on.
Result(ret, type, string, cs, hi) ==
  [cursor |-> cs, hi |-> hi, ret |-> ret, string |-> string, type |-> type]

\* the whitespace loop shared by NextToken, Read and ReadTo
RECURSIVE SkipWhiteSpace(_, _, _)
SkipWhiteSpace(m, e, cs) ==
  IF ~CompletedStream(cs, e) /\ IsWhiteSpace(m[cs])
  THEN SkipWhiteSpace(m, e, cs + 1)
  ELSE cs

\* A loop test of the form  cond(*charStream) && !CompletedStream()  reads
\* *charStream first; once the stream is completed the byte read decides
\* nothing.
LoopHi(cs, e) == IF CompletedStream(cs, e) THEN cs - 1 ELSE cs

\* GetSingleCharToken without the increment of the read head
GetSingleCharToken_NoAdvance(m, cs, type) ==
  Result(TRUE, type, SubSeq(m, cs, cs), cs, cs)

GetSingleCharToken(m, cs, type) ==
  Result(TRUE, type, SubSeq(m, cs, cs), cs + 1, cs)

\* the loop of GetStringToken: the read head when it exits
RECURSIVE StringLoop(_, _, _)
StringLoop(m, e, cs) ==
  IF IsString(m[cs]) /\ ~CompletedStream(cs, e)
  THEN StringLoop(m, e, cs + 1)
  ELSE cs

GetStringToken(m, e, c) ==
  LET stringBegining == c
      cs == StringLoop(m, e, c + 1)
      stringLength == 1 + (cs - (c + 1))
  IN Result(TRUE, Token_String,
            SubSeq(m, stringBegining, stringBegining + stringLength - 1),
            cs, LoopHi(cs, e))

\* the loop of GetNumberToken with a period making the number a Token_Float
RECURSIVE NumberLoop_Float(_, _, _, _)
NumberLoop_Float(m, e, cs, type) ==
  IF IsNumber(m[cs], type) /\ ~CompletedStream(cs, e)
  THEN IF m[cs] = "." /\ type = Token_Hex
       THEN [cs |-> cs, type |-> type]
       ELSE NumberLoop_Float(m, e, cs + 1,
                             IF m[cs] = "." THEN Token_Float ELSE type)
  ELSE [cs |-> cs, type |-> type]

\* the loop of GetNumberToken: the read head and the type when it exits
RECURSIVE NumberLoop(_, _, _, _)
NumberLoop(m, e, cs, type) ==
  IF IsNumber(m[cs], type) /\ ~CompletedStream(cs, e)
  THEN IF m[cs] = "." /\ type = Token_Hex
       THEN [cs |-> cs, type |-> type]
       ELSE NumberLoop(m, e, cs + 1,
                       IF m[cs] = "." THEN Token_Decimal ELSE type)
  ELSE [cs |-> cs, type |-> type]

GetNumberToken(m, e, c, isHex) ==
  LET stringBegining == c
      offset == IF m[stringBegining] = "-" THEN 1 ELSE 0
      tag == ~isHex /\ m[stringBegining + offset] = "0"
                    /\ m[stringBegining + offset + 1] = "x"
      type == IF isHex \/ tag THEN Token_Hex ELSE Token_Decimal
      cs0 == IF tag THEN stringBegining + offset + 2 ELSE c + 1
      len0 == IF tag THEN 3 ELSE 1
      end == NumberLoop(m, e, cs0, type)
      stringLength == len0 + (end.cs - cs0)
      tagRead == IF ~isHex /\ m[stringBegining + offset] = "0"
                 THEN stringBegining + offset + 1 ELSE 0
  IN IF offset = 1 /\ ~IsNumber(m[c + 1], Token_Decimal)
     THEN Result(TRUE, Token_Hyphen, SubSeq(m, c, c), c + 1, c + 1)
     ELSE Result(TRUE, end.type,
                 SubSeq(m, stringBegining, stringBegining + stringLength - 1),
                 end.cs,
                 Max(LoopHi(end.cs, e),
                     Max(tagRead, stringBegining + stringLength - 1)))

\* NextToken with usesHex deciding the hex-letter case as _expectHex does
NextToken_HexDefaultLetters(m, e, c, hexDefault, expectHex) ==
  LET cs == SkipWhiteSpace(m, e, c)
      ch == m[cs]
  IN IF CompletedStream(cs, e)
     THEN Result(TRUE, Token_End, <<>>, cs, 0)
     ELSE CASE ch \in {"-"} \cup Digits -> GetNumberToken(m, e, cs, hexDefault)
            [] ch \in HexLetters /\ (expectHex \/ hexDefault) ->
                 GetNumberToken(m, e, cs, TRUE)
            [] ch \in HexLetters /\ ~(expectHex \/ hexDefault) ->
                 GetStringToken(m, e, cs)
            [] ch \in OtherUpper \cup OtherLower \cup {"_"} ->
                 GetStringToken(m, e, cs)
            [] OTHER -> GetSingleCharToken(m, cs, SingleCharType(ch))

NextToken(m, e, c, hexDefault, expectHex) ==
  LET cs == SkipWhiteSpace(m, e, c)
      ch == m[cs]
  IN IF CompletedStream(cs, e)
     THEN Result(TRUE, Token_End, <<>>, cs, 0)
     ELSE CASE ch \in {"-"} \cup Digits -> GetNumberToken(m, e, cs, hexDefault)
            [] ch \in HexLetters /\ expectHex -> GetNumberToken(m, e, cs, TRUE)
            [] ch \in HexLetters /\ ~expectHex -> GetStringToken(m, e, cs)
            [] ch \in OtherUpper \cup OtherLower \cup {"_"} ->
                 GetStringToken(m, e, cs)
            [] OTHER -> GetSingleCharToken(m, cs, SingleCharType(ch))

\* the loop of Read: the read head when it exits
RECURSIVE ReadLoop(_, _, _, _)
ReadLoop(e, cs, stringLength, count) ==
  IF stringLength < count /\ ~CompletedStream(cs, e)
  THEN ReadLoop(e, cs + 1, stringLength + 1, count)
  ELSE cs

Read(m, e, c, count) ==
  LET stringBeginning == SkipWhiteSpace(m, e, c)
      cs == ReadLoop(e, stringBeginning + 1, 1, count)
      stringLength == 1 + (cs - (stringBeginning + 1))
  IN IF count = 0
     THEN Result(TRUE, Token_String, <<>>, c, 0)
     ELSE Result(TRUE, Token_String,
                 SubSeq(m, stringBeginning, stringBeginning + stringLength - 1),
                 cs, stringBeginning + stringLength - 1)

\* the loop of ReadTo: the read head when it exits
RECURSIVE ReadToLoop(_, _, _, _)
ReadToLoop(m, e, cs, key) ==
  IF m[cs] # key /\ ~CompletedStream(cs, e)
  THEN ReadToLoop(m, e, cs + 1, key)
  ELSE cs

ReadTo(m, e, c, key) ==
  LET stringBeginning == SkipWhiteSpace(m, e, c)
      cs == ReadToLoop(m, e, stringBeginning + 1, key)
      stringLength == 1 + (cs - (stringBeginning + 1))
  IN Result(TRUE, Token_String,
            SubSeq(m, stringBeginning, stringBeginning + stringLength - 1),
            cs, Max(LoopHi(cs, e), stringBeginning + stringLength - 1))

\* the value of *_outToken when a call does not write it
NoToken == "none"
\* the value of the variable value after a call that returns no number
NoValue == <<>>

\* ExpectString without the undo of the token read
ExpectString_NoUndo(m, e, c, expected) ==
  LET next == Read(m, e, c, Len(expected))
  IN IF next.string = expected
     THEN next
     ELSE Result(FALSE, NoToken, <<>>, next.cursor, next.hi)

ExpectString(m, e, c, expected) ==
  LET prevCharHead == c
      next == Read(m, e, c, Len(expected))
  IN IF next.string = expected
     THEN next
     ELSE Result(FALSE, NoToken, <<>>, prevCharHead, next.hi)

(***************************************************************************)
(* The second version of lexer.h has no Read: its ExpectString calls       *)
(* NextToken(usesHex, _expected.size()), whose GetStringToken takes the    *)
(* length.  Its other functions are those above.                           *)
(***************************************************************************)
GetStringToken_001(m, e, c, length) ==
  LET stringBegining == c
      cs == IF length # 0
            THEN ReadLoop(e, c + 1, 1, length)
            ELSE StringLoop(m, e, c + 1)
      stringLength == 1 + (cs - (c + 1))
  IN Result(TRUE, Token_String,
            SubSeq(m, stringBegining, stringBegining + stringLength - 1),
            cs,
            IF length # 0 THEN stringBegining + stringLength - 1
                          ELSE LoopHi(cs, e))

NextToken_001(m, e, c, hexDefault, expectHex, stringLength) ==
  LET cs == SkipWhiteSpace(m, e, c)
      ch == m[cs]
  IN IF CompletedStream(cs, e)
     THEN Result(TRUE, Token_End, <<>>, cs, 0)
     ELSE CASE ch \in {"-"} \cup Digits -> GetNumberToken(m, e, cs, hexDefault)
            [] ch \in HexLetters /\ expectHex -> GetNumberToken(m, e, cs, TRUE)
            [] ch \in HexLetters /\ ~expectHex ->
                 GetStringToken_001(m, e, cs, stringLength)
            [] ch \in OtherUpper \cup OtherLower \cup {"_"} ->
                 GetStringToken_001(m, e, cs, stringLength)
            [] OTHER -> GetSingleCharToken(m, cs, SingleCharType(ch))

ExpectString_001(m, e, c, hexDefault, expected) ==
  LET prevCharHead == c
      next == NextToken_001(m, e, c, hexDefault, hexDefault, Len(expected))
  IN IF next.string = expected
     THEN next
     ELSE Result(FALSE, NoToken, <<>>, prevCharHead, next.hi)

\* ExpectType calling NextToken() with its default _expectHex
ExpectType_NeverHex(m, e, c, hexDefault, expected) ==
  LET prevCharHead == c
      next == NextToken(m, e, c, hexDefault, FALSE)
  IN IF next.type = expected
     THEN next
     ELSE Result(FALSE, NoToken, <<>>, prevCharHead, next.hi)

ExpectType(m, e, c, hexDefault, expected) ==
  LET prevCharHead == c
      next == NextToken(m, e, c, hexDefault, expected = Token_Hex)
  IN IF next.type = expected
     THEN next
     ELSE Result(FALSE, NoToken, <<>>, prevCharHead, next.hi)

\* Peek without the restore of the read head
Peek_NoRestore(m, e, c, hexDefault) ==
  LET token == NextToken(m, e, c, hexDefault, FALSE)
  IN Result(TRUE, NoToken, token.string, token.cursor, token.hi)

Peek(m, e, c, hexDefault) ==
  LET head == c
      token == NextToken(m, e, c, hexDefault, FALSE)
  IN Result(TRUE, NoToken, token.string, head, token.hi)

(***************************************************************************)
(* GetProgress.  An unsigned long holds a pointer difference d modulo      *)
(* 2^64; for the differences of the model (far smaller than 2^63 in size)  *)
(* that is d itself when d >= 0 and 2^64 + d when d < 0.  ULong(d) is the  *)
(* triple <<w, d, 64>> that stands for w * 2^64 + d.                       *)
(***************************************************************************)
ULong(d) == <<IF d < 0 THEN 1 ELSE 0, d, 64>>
ULongZero(a) == a[1] = 0 /\ a[2] = 0
ULongLess(a, b) == a[1] < b[1] \/ (a[1] = b[1] /\ a[2] < b[2])

\* the operands of the division whose quotient GetProgress returns
GetProgress(cs, s, e) ==
  LET length == ULong(e - s)
      head == ULong(cs - s)
  IN [head |-> head, length |-> length]

\* The quotient (float)((double)head / (double)length) of IEEE arithmetic:
\* 0/0 is a NaN, which compares false with every number, x/0 is +infinity
\* for x > 0; the conversions and the rounding are monotonic and keep 0 and
\* 1, so the quotient compares with 0 and with 1 as head compares with 0
\* and with length.
QuotientIsNaN(q) == ULongZero(q.length) /\ ULongZero(q.head)
QuotientIsZero(q) == ~ULongZero(q.length) /\ ULongZero(q.head)
QuotientAtLeastOne(q) ==
  IF ULongZero(q.length)
  THEN ~ULongZero(q.head)
  ELSE ~ULongLess(q.head, q.length)
QuotientAtMostOne(q) ==
  ~ULongZero(q.length) /\ ~ULongLess(q.length, q.head)

(***************************************************************************)
(* The conversion helpers.  They read the token's string and nothing of    *)
(* the Lexer.  strtol and strtoul are those of the C library: they skip    *)
(* leading whitespace, take one optional sign, in base 16 an optional      *)
(* prefix 0x or 0X, and then the longest run of digits of the base;        *)
(* strtoul negates in unsigned arithmetic.  The values of the model are    *)
(* far smaller than 2^31, so no conversion saturates.                      *)
(***************************************************************************)
DigitValue(ch) ==
  CASE ch = "0" -> 0 [] ch = "1" -> 1 [] ch = "2" -> 2 [] ch = "3" -> 3
    [] ch = "4" -> 4 [] ch = "5" -> 5 [] ch = "6" -> 6 [] ch = "7" -> 7
    [] ch = "8" -> 8 [] ch = "9" -> 9
    [] ch \in {"a", "A"} -> 10 [] ch \in {"b", "B"} -> 11
    [] ch \in {"c", "C"} -> 12 [] ch \in {"d", "D"} -> 13
    [] ch \in {"e", "E"} -> 14 [] ch \in {"f", "F"} -> 15
    [] OTHER -> 36

\* isspace() of the C locale
IsSpace(ch) == ch \in {" ", "\t", "\n", "\r", "\f"}

RECURSIVE SkipSpace(_, _)
SkipSpace(str, i) ==
  IF i <= Len(str) /\ IsSpace(str[i]) THEN SkipSpace(str, i + 1) ELSE i

\* the value of the longest run of digits of the base that starts at i,
\* after the digits of value acc
RECURSIVE DigitRun(_, _, _, _)
DigitRun(str, i, base, acc) ==
  IF i <= Len(str) /\ DigitValue(str[i]) < base
  THEN DigitRun(str, i + 1, base, acc * base + DigitValue(str[i]))
  ELSE acc

Strtol(str, base) ==
  LET i0 == SkipSpace(str, 1)
      signed == i0 <= Len(str) /\ str[i0] \in {"-", "+"}
      i1 == IF signed THEN i0 + 1 ELSE i0
      prefix == /\ base = 16
                /\ i1 + 2 <= Len(str)
                /\ str[i1] = "0"
                /\ str[i1 + 1] \in {"x", "X"}
                /\ DigitValue(str[i1 + 2]) < 16
      i2 == IF prefix THEN i1 + 2 ELSE i1
      magnitude == DigitRun(str, i2, base, 0)
  IN IF signed /\ str[i0] = "-" THEN 0 - magnitude ELSE magnitude

Strtoul(str, base) == ULong(Strtol(str, base))

\* the conversion of an unsigned long to unsigned int keeps the value
\* modulo 2^32: 2^64 + d becomes 2^32 + d
ToUInt(u) == <<u[1], u[2], 32>>
\* the conversion of a long to int, for a value an int holds
ToInt(v) == v

\* _token->string.c_str() + offset
From(str, offset) == SubSeq(str, offset + 1, Len(str))

\* int offset = _token->string[0] == '-', taken as 0
SignOffset_None(str) == 0

\* int offset = _token->string[0] == '-'
SignOffset(str) == IF Len(str) >= 1 /\ str[1] = "-" THEN 1 ELSE 0

\* the offset of the base-16 helpers: the sign and the prefix "0x"
HexOffset(str) ==
  LET offset == SignOffset(str)
  IN offset + 2 * (IF /\ Len(str) > 2 + offset
                      /\ str[1 + offset] = "0"
                      /\ str[2 + offset] = "x"
                   THEN 1 ELSE 0)

GetUIntFromToken(str) == ToUInt(Strtoul(From(str, SignOffset(str)), 10))
GetIntFromToken(str) == ToInt(Strtol(str, 10))
GetULongFromToken(str) == Strtoul(From(str, SignOffset(str)), 10)
GetLongFromToken(str) == Strtol(str, 10)

GetUIntFromHexToken(str) == ToUInt(Strtoul(From(str, HexOffset(str)), 16))
GetIntFromHexToken(str) == ToInt(Strtol(From(str, HexOffset(str)), 16))
GetULongFromHexToken(str) == Strtoul(From(str, HexOffset(str)), 16)
GetLongFromHexToken(str) == Strtol(From(str, HexOffset(str)), 16)

GetUIntFromBinaryToken(str) == ToUInt(Strtoul(From(str, SignOffset(str)), 2))
GetIntFromBinaryToken(str) == ToInt(Strtol(str, 2))
GetULongFromBinaryToken(str) == Strtoul(From(str, SignOffset(str)), 2)
GetLongFromBinaryToken(str) == Strtol(str, 2)

\* std::string::compare with the comparison stopping at the end of the
\* shorter string
Compare_Prefix(a, b) ==
  IF \E i \in 1..Min(Len(a), Len(b)) : a[i] # b[i] THEN 1 ELSE 0

\* std::string::compare(const char*): 0 when the strings are equal; the
\* sign of a difference of characters is not modelled
Compare(a, b) ==
  IF \E i \in 1..Min(Len(a), Len(b)) : a[i] # b[i]
  THEN 1
  ELSE Len(a) - Len(b)

\* the loop of GetTokenSetIndex, from index on
RECURSIVE SetIndexLoop(_, _, _, _)
SetIndexLoop(string, stringArray, count, index) ==
  IF index < count
  THEN IF Compare(string, stringArray[index + 1]) = 0
       THEN index
       ELSE SetIndexLoop(string, stringArray, count, index + 1)
  ELSE index

GetTokenSetIndex(string, stringArray, count) ==
  SetIndexLoop(string, stringArray, count, 0)

(***************************************************************************)
(* A call of a public member function and its arguments                    *)
(***************************************************************************)
Call(op, hex, expected, type, count, key) ==
  <<op, hex, expected, type, count, key>>
\* the member function called
Op(cl) == cl[1]
\* _expectHex of NextToken
ArgHex(cl) == cl[2]
\* _expected of ExpectString
ArgString(cl) == cl[3]
\* _expected of ExpectType
ArgType(cl) == cl[4]
\* _count of Read
ArgCount(cl) == cl[5]
\* _key of ReadTo
ArgKey(cl) == cl[6]

Invoke(cl, m, e, c, hexDefault) ==
  CASE Op(cl) = "NextToken" -> NextToken(m, e, c, hexDefault, ArgHex(cl))
    [] Op(cl) = "ExpectString" -> ExpectString(m, e, c, ArgString(cl))
    [] Op(cl) = "ExpectString_001" ->
         ExpectString_001(m, e, c, hexDefault, ArgString(cl))
    [] Op(cl) = "ExpectType" -> ExpectType(m, e, c, hexDefault, ArgType(cl))
    [] Op(cl) = "Read" -> Read(m, e, c, ArgCount(cl))
    [] Op(cl) = "ReadTo" -> ReadTo(m, e, c, ArgKey(cl))
    [] Op(cl) = "Peek" -> Peek(m, e, c, hexDefault)
    [] Op(cl) = "GetProgress" -> Result(TRUE, NoToken, <<>>, c, 0)

\* The outcomes of a call: it runs on the memory read so far; when it
\* dereferences a foreign byte no call has read yet, that byte takes every
\* value.
RECURSIVE Runs(_, _, _, _, _)
Runs(cl, str, known, c, hexDefault) ==
  LET r == Invoke(cl, Image(str, known), Len(str), c, hexDefault)
  IN IF r.hi <= Len(str) + Len(known)
     THEN {[known |-> known, res |-> r]}
     ELSE UNION {Runs(cl, str, Append(known, b), c, hexDefault) : b \in Foreign}

Do(cl) ==
  \E run \in Runs(cl, stream, beyond, charStream, usesHex) :
    /\ charStream' = run.res.cursor
    /\ beyond' = run.known
    /\ call' = cl
    /\ prev' = charStream
    /\ out' = [ret |-> run.res.ret, string |-> run.res.string,
               type |-> run.res.type]

\* the arguments the calls are made with
ExpectedStrings == {<<>>, <<"a">>, <<"0", "x">>}
ExpectedTypes == {Token_Hex, Token_String, Token_Float, Token_End}
Counts == 0..2
Keys == {"x", " "}

RECURSIVE SeqsOf(_, _)
SeqsOf(S, n) ==
  IF n = 0 THEN {<<>>}
  ELSE LET shorter == SeqsOf(S, n - 1)
       IN shorter \cup {Append(s, x) : s \in {t \in shorter : Len(t) = n - 1},
                                       x \in S}

Init ==
  /\ stream \in SeqsOf(Char, MaxLen)
  /\ beyond = <<>>
  /\ usesHex \in BOOLEAN
  /\ charStream = streamStart
  /\ call = Call("Lexer", FALSE, <<>>, NoToken, 0, " ")
  /\ prev = streamStart
  /\ out = [ret |-> TRUE, string |-> <<>>, type |-> NoToken]
  /\ value = NoValue
  /\ tokens = 0

NextTokenOp ==
  \E hex \in BOOLEAN :
    /\ Do(Call("NextToken", hex, <<>>, NoToken, 0, " "))
    /\ value' = NoValue
    /\ UNCHANGED <<stream, usesHex, tokens>>

ExpectStringOp ==
  \E expected \in ExpectedStrings :
    /\ charStream <= streamEnd + MaxOver
    /\ Do(Call("ExpectString", FALSE, expected, NoToken, 0, " "))
    /\ value' = NoValue
    /\ UNCHANGED <<stream, usesHex, tokens>>

ExpectString001Op ==
  \E expected \in ExpectedStrings :
    /\ Do(Call("ExpectString_001", FALSE, expected, NoToken, 0, " "))
    /\ value' = NoValue
    /\ UNCHANGED <<stream, usesHex, tokens>>

ExpectTypeOp ==
  \E type \in ExpectedTypes :
    /\ Do(Call("ExpectType", FALSE, <<>>, type, 0, " "))
    /\ value' = NoValue
    /\ UNCHANGED <<stream, usesHex, tokens>>

ReadOp ==
  \E count \in Counts :
    /\ charStream <= streamEnd + MaxOver
    /\ Do(Call("Read", FALSE, <<>>, NoToken, count, " "))
    /\ value' = NoValue
    /\ UNCHANGED <<stream, usesHex, tokens>>

ReadToOp ==
  \E key \in Keys :
    /\ charStream <= streamEnd + MaxOver
    /\ Do(Call("ReadTo", FALSE, <<>>, NoToken, 0, key))
    /\ value' = NoValue
    /\ UNCHANGED <<stream, usesHex, tokens>>

PeekOp ==
  /\ Do(Call("Peek", FALSE, <<>>, NoToken, 0, " "))
  /\ value' = NoValue
  /\ UNCHANGED <<stream, usesHex, tokens>>

\* GetProgress() returns a float and changes nothing
GetProgressOp ==
  /\ Do(Call("GetProgress", FALSE, <<>>, NoToken, 0, " "))
  /\ value' = GetProgress(charStream, streamStart, streamEnd)
  /\ UNCHANGED <<stream, usesHex, tokens>>

Next ==
  \/ NextTokenOp
  \/ ExpectStringOp
  \/ ExpectString001Op
  \/ ExpectTypeOp
  \/ ReadOp
  \/ ReadToOp
  \/ PeekOp
  \/ GetProgressOp

Spec == Init /\ [][Next]_vars

(***************************************************************************)
(* The helpers that take a token.  A caller holds a token of any text and  *)
(* hands it to GetTokenSetIndex or to a conversion helper; the call        *)
(* returns a number and changes neither the token nor the Lexer.           *)
(***************************************************************************)
\* longest text of a token handed to a helper
MaxText == 4
\* the characters of those texts: the sign, two digits, the letters of the
\* prefixes 0x and 0X, and a hex letter
TextChar == {"-", "0", "1", "x", "X", "a"}

\* the arrays handed to GetTokenSetIndex
StringArrays ==
  {<<>>,
   << <<"0">>, <<"0", "x">>, <<"0">> >>,
   << <<>>, <<"-", "0">>, <<"-">>, <<"-", "0">> >>}

\* a call of GetTokenSetIndex and its arguments
SetCall(stringArray, count) == <<"GetTokenSetIndex", stringArray, count>>
ArgArray(cl) == cl[2]
ArgSetCount(cl) == cl[3]

HelperInit ==
  /\ stream = <<>>
  /\ beyond = <<>>
  /\ usesHex = FALSE
  /\ charStream = streamStart
  /\ call = Call("Lexer", FALSE, <<>>, NoToken, 0, " ")
  /\ prev = streamStart
  /\ \E text \in SeqsOf(TextChar, MaxText) :
       out = [ret |-> TRUE, string |-> text, type |-> Token_String]
  /\ value = NoValue
  /\ tokens = 0

GetTokenSetIndexOp ==
  \E stringArray \in StringArrays :
    \E count \in 0..Len(stringArray) :
      /\ call' = SetCall(stringArray, count)
      /\ value' = GetTokenSetIndex(out.string, stringArray, count)
      /\ prev' = charStream
      /\ UNCHANGED <<stream, beyond, usesHex, charStream, out, tokens>>

\* a helper that takes the token alone
Convert(helper) ==
  /\ call' = Call(helper, FALSE, <<>>, NoToken, 0, " ")
  /\ prev' = charStream
  /\ UNCHANGED <<stream, beyond, usesHex, charStream, out, tokens>>

DecimalOp ==
  \/ Convert("GetUIntFromToken") /\ value' = GetUIntFromToken(out.string)
  \/ Convert("GetIntFromToken") /\ value' = GetIntFromToken(out.string)
  \/ Convert("GetULongFromToken") /\ value' = GetULongFromToken(out.string)
  \/ Convert("GetLongFromToken") /\ value' = GetLongFromToken(out.string)

HexOp ==
  \/ Convert("GetUIntFromHexToken")
       /\ value' = GetUIntFromHexToken(out.string)
  \/ Convert("GetIntFromHexToken")
       /\ value' = GetIntFromHexToken(out.string)
  \/ Convert("GetULongFromHexToken")
       /\ value' = GetULongFromHexToken(out.string)
  \/ Convert("GetLongFromHexToken")
       /\ value' = GetLongFromHexToken(out.string)

BinaryOp ==
  \/ Convert("GetUIntFromBinaryToken")
       /\ value' = GetUIntFromBinaryToken(out.string)
  \/ Convert("GetIntFromBinaryToken")
       /\ value' = GetIntFromBinaryToken(out.string)
  \/ Convert("GetULongFromBinaryToken")
       /\ value' = GetULongFromBinaryToken(out.string)
  \/ Convert("GetLongFromBinaryToken")
       /\ value' = GetLongFromBinaryToken(out.string)

HelperNext ==
  \/ GetTokenSetIndexOp
  \/ DecimalOp
  \/ HexOp
  \/ BinaryOp

HelperSpec == HelperInit /\ [][HelperNext]_vars

(***************************************************************************)
(* A caller that tokenizes a buffer: it constructs a Lexer and calls       *)
(* NextToken again and again.  tokens counts the tokens returned that are  *)
(* no Token_End.                                                           *)
(***************************************************************************)
\* the characters of these buffers: whitespace, the hyphen, a digit, a
\* letter, a character with no token type of its own, and the NUL byte
TokenChar == {" ", "-", "0", "x", "@", NUL}

TokenInit ==
  /\ stream \in SeqsOf(TokenChar, MaxLen)
  /\ beyond = <<>>
  /\ usesHex \in BOOLEAN
  /\ charStream = streamStart
  /\ call = Call("Lexer", FALSE, <<>>, NoToken, 0, " ")
  /\ prev = streamStart
  /\ out = [ret |-> TRUE, string |-> <<>>, type |-> NoToken]
  /\ value = NoValue
  /\ tokens = 0

NextTokenRun ==
  \E hex \in BOOLEAN :
    /\ tokens <= MaxLen
    /\ Do(Call("NextToken", hex, <<>>, NoToken, 0, " "))
    /\ tokens' = IF out'.type = Token_End THEN tokens ELSE tokens + 1
    /\ value' = NoValue
    /\ UNCHANGED <<stream, usesHex>>

TokenNext == NextTokenRun

\* the caller goes on calling NextToken
TokenSpec == TokenInit /\ [][TokenNext]_vars /\ WF_vars(TokenNext)

(***************************************************************************)
(* Properties.  The history variables call, prev, out and value hold the   *)
(* last call made, the read head before it, the token and the number it    *)
(* returned.                                                               *)
(***************************************************************************)
\* the memory as the calls made so far have seen it
Memory == Image(stream, beyond)
\* the address the last call started reading at, after its whitespace loop
TokenStart == SkipWhiteSpace(Memory, streamEnd, prev)
\* from address p on the buffer holds nothing but whitespace
OnlyWhiteSpaceFrom(p) == \A i \in p..streamEnd : IsWhiteSpace(stream[i])

\* C1: after every sequence of public calls the read head lies within
\* streamStart .. streamEnd + 1.
C1_CursorInBounds ==
  streamStart <= charStream /\ charStream <= streamEnd + 1

C3_ExpectType ==
  Op(call) = "ExpectType" =>
    LET kind == ArgType(call)
        next == NextToken(Memory, streamEnd, prev, usesHex, kind = Token_Hex)
        hexLetterAhead == TokenStart <= streamEnd
                          /\ stream[TokenStart] \in HexLetters
    IN /\ out.ret = (next.type = kind)
       /\ out.ret => /\ out.type = kind
                     /\ out.string = next.string
                     /\ charStream = next.cursor
       /\ ~out.ret => charStream = prev /\ out.type = NoToken
       /\ hexLetterAhead => (out.ret = (kind \in {Token_Hex, Token_String}))

\* C3 witness: ExpectType(Token_Hex) succeeded on a token that starts with a
\* hex letter, after skipping whitespace.
C3_Witness ==
  /\ Op(call) = "ExpectType"
  /\ ArgType(call) = Token_Hex
  /\ out.ret
  /\ prev < TokenStart
  /\ TokenStart <= streamEnd
  /\ stream[TokenStart] \in HexLetters
  /\ charStream > TokenStart

\* C4: Peek is non-destructive.  It leaves the read head where it was; a
\* Peek that follows a Peek returns the same string; and a NextToken() with
\* default arguments that follows a Peek returns a token with that string.
C4_PeekNonDestructive ==
  [][/\ Op(call') = "Peek" => charStream' = charStream
     /\ (Op(call) = "Peek" /\ Op(call') = "Peek") => out'.string = out.string
     /\ (Op(call) = "Peek" /\ Op(call') = "NextToken" /\ ~ArgHex(call'))
          => out'.string = out.string]_vars

\* C4 witness: a Peek that looked at a token of the buffer lying after
\* whitespace and left the read head before that whitespace.
C4_Witness ==
  /\ Op(call) = "Peek"
  /\ prev < TokenStart
  /\ TokenStart <= streamEnd
  /\ Len(out.string) > 0
  /\ charStream = prev

\* C5: the end of the stream is idempotent.  A NextToken called with the read
\* head after streamEnd, or with only whitespace left before streamEnd,
\* returns Token_End with empty text, moves the read head to streamEnd + 1 at
\* most (it does not move a read head that is already after streamEnd), and
\* CompletedStream() is true afterwards.  This holds in every reachable
\* state, so for every later call too.
C5_EndIdempotent ==
  (Op(call) = "NextToken" /\ OnlyWhiteSpaceFrom(prev)) =>
    /\ out.type = Token_End
    /\ out.string = <<>>
    /\ charStream = Max(prev, streamEnd + 1)
    /\ CompletedStream(charStream, streamEnd)

\* C5 witness: a NextToken called when an earlier call had already moved the
\* read head of a non-empty buffer after streamEnd.
C5_Witness ==
  /\ Op(call) = "NextToken"
  /\ streamEnd > 0
  /\ prev > streamEnd
  /\ out.type = Token_End
  /\ charStream = prev

\* the end of the maximal run of hex digits of the buffer that starts at i
RECURSIVE HexRunEnd(_)
HexRunEnd(i) ==
  IF i <= streamEnd /\ stream[i] \in Digits \cup HexLetters
  THEN HexRunEnd(i + 1)
  ELSE i

\* the first address from i on where the buffer holds ch; streamEnd + 1 if
\* there is none
RECURSIVE FirstAt(_, _)
FirstAt(ch, i) ==
  IF i <= streamEnd /\ stream[i] # ch THEN FirstAt(ch, i + 1) ELSE i

\* C6: with usesHex false, a token that starts with the prefix 0x is a
\* Token_Hex whose text is the prefix and the maximal run of hex digits
\* after it, the read head is left right after the run, and the text is as
\* long as the distance the read head moved from the token's start.
C6_HexTagText ==
  (/\ Op(call) = "NextToken"
   /\ ~usesHex
   /\ TokenStart + 1 <= streamEnd
   /\ stream[TokenStart] = "0"
   /\ stream[TokenStart + 1] = "x") =>
    LET runEnd == HexRunEnd(TokenStart + 2)
    IN /\ out.type = Token_Hex
       /\ out.string = SubSeq(stream, TokenStart, runEnd - 1)
       /\ charStream = runEnd
       /\ Len(out.string) = charStream - TokenStart

\* C7: the hyphen back-off.  When NextToken meets '-' and the next character
\* is no decimal digit (another character, whitespace or the end of the
\* stream), it returns Token_Hyphen with text "-" and the read head moves by
\* one; when the next character is a digit the '-' starts the number token.
C7_HyphenBackOff ==
  (/\ Op(call) = "NextToken"
   /\ TokenStart <= streamEnd
   /\ stream[TokenStart] = "-") =>
    IF TokenStart + 1 <= streamEnd /\ stream[TokenStart + 1] \in Digits
    THEN /\ out.type \in {Token_Decimal, Token_Hex}
         /\ Len(out.string) >= 2
         /\ out.string[1] = "-"
         /\ out.string[2] = stream[TokenStart + 1]
    ELSE /\ out.type = Token_Hyphen
         /\ out.string = <<"-">>
         /\ charStream = TokenStart + 1

\* C8: Read(count) skips leading whitespace and returns a Token_String of
\* exactly min(count, characters left up to streamEnd) characters, moving
\* the read head by that many; with no character left it returns none;
\* Read(0) returns an empty token and does not move the read head.
C8_ReadLength ==
  Op(call) = "Read" =>
    LET count == ArgCount(call)
        left == Max(0, streamEnd - TokenStart + 1)
        n == Min(count, left)
    IN /\ out.type = Token_String
       /\ count = 0 => (out.string = <<>> /\ charStream = prev)
       /\ count > 0 => /\ out.string = SubSeq(stream, TokenStart, TokenStart + n - 1)
                       /\ charStream = TokenStart + n

\* C9: ReadTo(key) skips leading whitespace and returns a Token_String of
\* the characters up to, and not including, the first key (or up to the end
\* of the stream): the text never holds the key, and a key within the
\* buffer is left unconsumed under the read head.
C9_ReadToDelimiter ==
  Op(call) = "ReadTo" =>
    LET key == ArgKey(call)
        stop == FirstAt(key, TokenStart)
    IN /\ out.type = Token_String
       /\ \A i \in 1..Len(out.string) : out.string[i] # key
       /\ out.string = SubSeq(stream, TokenStart, stop - 1)
       /\ charStream = stop

\* C10 as claimed: on a Lexer with usesHex true, NextToken() lexes a token
\* that starts with a hex letter as a number (Token_Hex), not as a string.
C10_HexLetterStartsNumber ==
  (/\ Op(call) = "NextToken"
   /\ ~ArgHex(call)
   /\ usesHex
   /\ TokenStart <= streamEnd
   /\ stream[TokenStart] \in HexLetters) => out.type = Token_Hex

\* C10 as amended: on a Lexer with usesHex true, a token that starts with a
\* decimal digit is a Token_Hex made of the maximal run of hex digits, so hex
\* letters after the digit are digits of the number; a token that starts
\* with a hex letter is a number (Token_Hex) only when NextToken is called
\* with _expectHex true, and a Token_String with the default arguments.
C10_HexByDefault ==
  (/\ Op(call) = "NextToken"
   /\ usesHex
   /\ TokenStart <= streamEnd) =>
    /\ stream[TokenStart] \in Digits =>
         /\ out.type = Token_Hex
         /\ charStream = HexRunEnd(TokenStart + 1)
         /\ out.string = SubSeq(stream, TokenStart, charStream - 1)
    /\ stream[TokenStart] \in HexLetters =>
         /\ (out.type = Token_Hex) = ArgHex(call)
         /\ ~ArgHex(call) => out.type = Token_String

\* C10 witness: NextToken() with default arguments, on a Lexer with usesHex
\* true, returned a token that starts with a hex letter.
C10_Witness ==
  /\ Op(call) = "NextToken"
  /\ ~ArgHex(call)
  /\ usesHex
  /\ TokenStart <= streamEnd
  /\ stream[TokenStart] \in HexLetters
  /\ out.type = Token_String
  /\ charStream > TokenStart

\* the end of the maximal run of the buffer, starting at i, of characters
\* from 0-9, A-Z, a-z, '_' and '-'
RECURSIVE StringRunEnd(_)
StringRunEnd(i) ==
  IF i <= streamEnd
     /\ stream[i] \in Digits \cup HexLetters \cup OtherLower \cup OtherUpper
                      \cup {"_", "-"}
  THEN StringRunEnd(i + 1)
  ELSE i

\* C11: string lexing.  When NextToken, called with _expectHex false, meets a
\* letter or '_', it returns a Token_String whose text is the maximal run of
\* characters from 0-9, A-Z, a-z, '_' and '-' that starts there and stops at
\* the first character outside that set or at streamEnd; the text has at
\* least one character and the read head is left right after the run.
C11_StringRun ==
  (/\ Op(call) = "NextToken"
   /\ ~ArgHex(call)
   /\ TokenStart <= streamEnd
   /\ stream[TokenStart] \in HexLetters \cup OtherLower \cup OtherUpper
                             \cup {"_"}) =>
    LET runEnd == StringRunEnd(TokenStart)
    IN /\ out.type = Token_String
       /\ out.string = SubSeq(stream, TokenStart, runEnd - 1)
       /\ Len(out.string) >= 1
       /\ charStream = runEnd

\* C11 witness: NextToken() returned a string of a letter and a hyphen that
\* stops at a character of the buffer outside the set.
C11_Witness ==
  /\ Op(call) = "NextToken"
  /\ ~ArgHex(call)
  /\ out.type = Token_String
  /\ Len(out.string) = 2
  /\ out.string[2] = "-"
  /\ charStream <= streamEnd
  /\ charStream = TokenStart + 2

\* the characters that have a token type of their own
Punctuation ==
  {"-", ",", "[", "]", "{", "}", "(", ")", "/", "<", ">", "=", "+", "*",
   "\\", "#", ".", ";", ":", "'", "\"", "|", NUL}

\* the buffer holds punctuation characters and whitespace only
OnlyPunctuation ==
  \A i \in 1..streamEnd : stream[i] \in Punctuation \/ IsWhiteSpace(stream[i])

\* C12: the punctuation round trip.  On a buffer of punctuation characters
\* and whitespace only, every NextToken that has a character left returns a
\* token whose text is the one punctuation character at the token's start and
\* moves the read head right after that character, so that the texts of the
\* tokens up to Token_End, concatenated, are the buffer's characters other
\* than whitespace, in their order.
C12_PunctuationRoundTrip ==
  (/\ Op(call) = "NextToken"
   /\ OnlyPunctuation
   /\ TokenStart <= streamEnd) =>
    /\ out.string = <<stream[TokenStart]>>
    /\ charStream = TokenStart + 1

\* C13: GetProgress returns 0.0 while the read head is at streamStart, as it
\* is right after construction, a value of at least 1.0 once calls have moved
\* the read head after streamEnd, and a value from 0 to 1 while the read head
\* is within the buffer, for every buffer length, 0 and 1 included; the
\* value is (charStream - streamStart) / (streamEnd - streamStart).
C13_Progress ==
  Op(call) = "GetProgress" =>
    LET progress == value
    IN /\ charStream = streamStart => QuotientIsZero(progress)
       /\ (CompletedStream(charStream, streamEnd) /\ charStream > streamStart)
            => QuotientAtLeastOne(progress)
       /\ ~CompletedStream(charStream, streamEnd)
            => (QuotientAtMostOne(progress) /\ ~QuotientIsNaN(progress))
       /\ \/ /\ progress.head = <<0, charStream - streamStart, 64>>
             /\ progress.length = <<0, streamEnd - streamStart, 64>>
          \/ /\ charStream = streamStart
             /\ QuotientIsZero(progress)

\* the indexes below count whose string of the array equals the text
Matches(text, stringArray, count) ==
  {i \in 0..(count - 1) : stringArray[i + 1] = text}

\* C14: GetTokenSetIndex(token, candidates, count) returns the smallest index
\* in 0 .. count - 1 whose candidate equals the token's text exactly, and
\* count when no candidate does, also when count is 0; it does not move the
\* read head.
C14_TokenSetIndex ==
  Op(call) = "GetTokenSetIndex" =>
    LET count == ArgSetCount(call)
        matches == Matches(out.string, ArgArray(call), count)
    IN /\ matches = {} => value = count
       /\ matches # {} => (value \in matches /\ \A i \in matches : value <= i)
       /\ charStream = prev

\* C14 witness: a call that returned the first of two matching indexes,
\* after a candidate that is a proper prefix of the token's text.
C14_Witness ==
  /\ Op(call) = "GetTokenSetIndex"
  /\ value = 1
  /\ Cardinality(Matches(out.string, ArgArray(call), ArgSetCount(call))) = 2
  /\ Len(ArgArray(call)[1]) < Len(out.string)
  /\ SubSeq(out.string, 1, Len(ArgArray(call)[1])) = ArgArray(call)[1]

\* C15: no call returns a token of type Token_Float: the number tokens are
\* Token_Hex or Token_Decimal, also when their text holds a period, so
\* ExpectType(Token_Float) returns false and leaves the read head where it
\* was, on every input.
C15_NoFloat ==
  /\ out.type # Token_Float
  /\ (/\ Op(call) \in {"NextToken", "ExpectType"}
      /\ out.ret
      /\ TokenStart <= streamEnd
      /\ stream[TokenStart] \in Digits)
       => out.type \in {Token_Hex, Token_Decimal}
  /\ (Op(call) = "ExpectType" /\ ArgType(call) = Token_Float)
       => (~out.ret /\ charStream = prev)

\* C15 witness: ExpectType(Token_Float) failed on a number of the buffer
\* whose text holds a period.
C15_Witness ==
  /\ Op(call) = "ExpectType"
  /\ ArgType(call) = Token_Float
  /\ ~out.ret
  /\ TokenStart + 2 <= streamEnd
  /\ stream[TokenStart] = "0"
  /\ stream[TokenStart + 1] = "."
  /\ stream[TokenStart + 2] = "0"
  /\ ~usesHex
  /\ charStream = prev

\* the helpers by return type and by base
UIntHelpers ==
  {"GetUIntFromToken", "GetUIntFromHexToken", "GetUIntFromBinaryToken"}
ULongHelpers ==
  {"GetULongFromToken", "GetULongFromHexToken", "GetULongFromBinaryToken"}
SignedHelpers ==
  {"GetIntFromToken", "GetLongFromToken", "GetIntFromHexToken",
   "GetLongFromHexToken", "GetIntFromBinaryToken", "GetLongFromBinaryToken"}
SignedHexHelpers == {"GetIntFromHexToken", "GetLongFromHexToken"}
HexHelpers == SignedHexHelpers \cup {"GetUIntFromHexToken", "GetULongFromHexToken"}
BinaryHelpers ==
  {"GetUIntFromBinaryToken", "GetIntFromBinaryToken",
   "GetULongFromBinaryToken", "GetLongFromBinaryToken"}
Helpers == UIntHelpers \cup ULongHelpers \cup SignedHelpers
BaseOf(helper) ==
  IF helper \in HexHelpers THEN 16
  ELSE IF helper \in BinaryHelpers THEN 2 ELSE 10

\* the number a sequence of digits of the base denotes
RECURSIVE NumberOf(_, _)
NumberOf(digits, base) ==
  IF digits = <<>> THEN 0
  ELSE NumberOf(SubSeq(digits, 1, Len(digits) - 1), base) * base
       + DigitValue(digits[Len(digits)])

HasSign(text) == Len(text) >= 1 /\ text[1] = "-"
\* the index of the text after its sign and, in base 16, its prefix
DigitsStart(text, base) ==
  LET i == IF HasSign(text) THEN 2 ELSE 1
  IN IF base = 16 /\ i + 1 <= Len(text) /\ text[i] = "0"
        /\ text[i + 1] \in {"x", "X"}
     THEN i + 2 ELSE i
\* the end of the run of digits of the base that starts at i
RECURSIVE DigitsEnd(_, _, _)
DigitsEnd(text, i, base) ==
  IF i <= Len(text) /\ DigitValue(text[i]) < base
  THEN DigitsEnd(text, i + 1, base)
  ELSE i
\* the value of the digits that follow the sign and the prefix
DigitsValue(text, base) ==
  LET i == DigitsStart(text, base)
  IN NumberOf(SubSeq(text, i, DigitsEnd(text, i, base) - 1), base)

\* a number v >= 0 as the helper returns it
Returned(helper, v) ==
  IF helper \in UIntHelpers THEN <<0, v, 32>>
  ELSE IF helper \in ULongHelpers THEN <<0, v, 64>>
  ELSE v

\* C16 as claimed: every integer conversion helper skips a leading '-' of
\* the token's text, the base-16 helpers also a prefix 0x or 0X after the
\* sign, and returns the value of the digits that follow; no helper moves
\* the read head.
C16_SkipSignAndPrefix ==
  Op(call) \in Helpers =>
    /\ value = Returned(Op(call), DigitsValue(out.string, BaseOf(Op(call))))
    /\ charStream = prev

\* the helpers that hand the whole text, sign included, to strtol
WholeTextHelpers ==
  {"GetIntFromToken", "GetLongFromToken",
   "GetIntFromBinaryToken", "GetLongFromBinaryToken"}

\* the text is an optional '-', in base 16 an optional prefix 0x or 0X, and
\* then digits of the base only
NumberText(text, base) ==
  \A i \in DigitsStart(text, base)..Len(text) : DigitValue(text[i]) < base

\* C16 as amended: on a token whose text is an optional '-', in base 16 an
\* optional prefix 0x or 0X, and then digits of the base only, the unsigned
\* helpers of base 10 and 2 and the four helpers of base 16 skip the sign
\* (those of base 16 the prefix too) and return the value of the digits; the
\* signed helpers of base 10 and 2 hand the whole text to strtol and return
\* the value of the digits negated when the text starts with '-'.  No helper
\* moves the read head.
C16_Conversions ==
  (Op(call) \in Helpers /\ NumberText(out.string, BaseOf(Op(call)))) =>
    LET helper == Op(call)
        v == DigitsValue(out.string, BaseOf(helper))
    IN /\ value = IF helper \in WholeTextHelpers /\ HasSign(out.string)
                  THEN 0 - v
                  ELSE Returned(helper, v)
       /\ charStream = prev

\* C16 witness: a base-16 helper returned the value of the digits of a text
\* that starts with a sign and the prefix.
C16_Witness ==
  /\ Op(call) = "GetUIntFromHexToken"
  /\ out.string = <<"-", "0", "x", "a">>
  /\ value = <<0, 10, 32>>
  /\ charStream = prev

\* the contents the memory after the buffer can have, as far as a call reads
ForeignTails ==
  {tail \in SeqsOf(Foreign, MaxOver + 4) : Len(tail) = MaxOver + 4}

\* C17: the results depend on the bytes of the buffer only.  Whatever the
\* bytes after streamEnd are, a NextToken called with the read head within
\* streamStart .. streamEnd + 1 returns the same type and the same text and
\* leaves the read head at the same place, and the text it returns holds no
\* byte that lies after streamEnd.
C17_BufferOnly ==
  (Op(call) = "NextToken" /\ prev <= streamEnd + 1) =>
    /\ \A tail \in ForeignTails :
         LET other == NextToken(stream \o tail, streamEnd, prev, usesHex,
                                ArgHex(call))
         IN /\ other.type = out.type
            /\ other.string = out.string
            /\ other.cursor = charStream
    /\ out.string # <<>> => TokenStart + Len(out.string) - 1 <= streamEnd

\* C18: progress and termination.  A NextToken never moves the read head
\* backwards, and one that returns a token other than Token_End moves it by
\* one character at least, past the start of the token (also for a hyphen
\* that starts no number, for Token_Unknown and for Token_NullTerminator);
\* so the tokens other than Token_End are at most as many as the buffer has
\* bytes, and repeated calls of NextToken eventually return Token_End.
C18_Termination ==
  /\ [](Op(call) = "NextToken" =>
          /\ charStream >= prev
          /\ out.type # Token_End => (/\ TokenStart <= streamEnd
                                      /\ charStream >= TokenStart + 1)
          /\ tokens <= streamEnd)
  /\ <>(Op(call) = "NextToken" /\ out.type = Token_End)

\* C18 witness: the third token of a buffer of three bytes is a
\* Token_NullTerminator, after a Token_Unknown and a hyphen that starts no
\* number.
C18_Witness ==
  /\ Op(call) = "NextToken"
  /\ out.type = Token_NullTerminator
  /\ tokens = 3
  /\ streamEnd = 3
  /\ stream[1] = "@"
  /\ stream[2] = "-"
  /\ charStream = streamEnd + 1

====
